---- MODULE Spec2Model ----
(***************************************************************************)
(* Model of app.py, the Streamlit "Limpiador de Duplicados": two uploaded  *)
(* tables A and B, a target column in each, and "Ejecutar limpieza", which *)
(* removes from A every row whose normalized target value occurs in B and  *)
(* reports the removed values with their counts.                           *)
(*                                                                         *)
(* Strings are sequences of one-character strings, so that str.strip and   *)
(* re.sub(r"\D", "", x) are computed character by character.  pandas is an *)
(* external library: whether a given upload parses, and to which table, is *)
(* recorded in the uploaded file (fields excel_ok, infer_ok, sniffed, ...);*)
(* astype(str) follows pandas 1.x/2.x, where a missing value (NaN) becomes *)
(* the text "nan".                                                         *)
(***************************************************************************)
EXTENDS Integers, Sequences, FiniteSets, TLC

\* Python's None, for values that are otherwise strings (messages, column
\* names) and for values that are otherwise records (DataFrames, metrics)
None == "None"
NoneRec == [tag |-> "None"]
\* a missing count after a left merge
NaN == -1

----------------------------------------------------------------------------
(* Cells and strings *)

Null == [tag |-> "null"]
S(chars) == [tag |-> "str", s |-> chars]
I(n) == [tag |-> "int", n |-> n]

Digits == {"0", "1", "2", "3", "4", "5", "6", "7", "8", "9"}
Whitespace == {" "}

\* ord(c) for the characters the model uses
CharCode(c) ==
    CASE c = " " -> 32
      [] c = "-" -> 45
      [] c = "." -> 46
      [] c = "0" -> 48
      [] c = "1" -> 49
      [] c = "2" -> 50
      [] c = "3" -> 51
      [] c = "4" -> 52
      [] c = "5" -> 53
      [] c = "6" -> 54
      [] c = "7" -> 55
      [] c = "8" -> 56
      [] c = "9" -> 57
      [] c = "a" -> 97
      [] c = "n" -> 110
      [] c = "x" -> 120

DigitChar(d) ==
    CASE d = 0 -> "0" [] d = 1 -> "1" [] d = 2 -> "2" [] d = 3 -> "3"
      [] d = 4 -> "4" [] d = 5 -> "5" [] d = 6 -> "6" [] d = 7 -> "7"
      [] d = 8 -> "8" [] d = 9 -> "9"

RECURSIVE IntToStr(_)
\* str(n) for a non-negative integer
IntToStr(n) ==
    IF n < 10 THEN <<DigitChar(n)>>
    ELSE IntToStr(n \div 10) \o <<DigitChar(n % 10)>>

\* Series.astype(str), one element: NaN becomes "nan"
AsTypeStr(cell) ==
    CASE cell.tag = "null" -> <<"n", "a", "n">>
      [] cell.tag = "str" -> cell.s
      [] cell.tag = "int" -> IntToStr(cell.n)

RECURSIVE LStrip(_)
LStrip(s) ==
    IF s # <<>> /\ Head(s) \in Whitespace THEN LStrip(Tail(s)) ELSE s

RECURSIVE RStrip(_)
RStrip(s) ==
    IF s # <<>> /\ s[Len(s)] \in Whitespace
    THEN RStrip(SubSeq(s, 1, Len(s) - 1))
    ELSE s

\* a mutant of Strip: only leading whitespace is removed
StripLeftOnly(s) == LStrip(s)

\* str.strip()
Strip(s) == RStrip(LStrip(s))

RECURSIVE ReSubNonDigits(_)
\* re.sub(r"\D", "", x)
ReSubNonDigits(x) ==
    IF x = <<>> THEN <<>>
    ELSE IF Head(x) \in Digits
         THEN <<Head(x)>> \o ReSubNonDigits(Tail(x))
         ELSE ReSubNonDigits(Tail(x))

\* _normalize_series applied to one element (strip_spaces keeps its default)
NormalizeValue(cell, digits_only) ==
    LET s1 == AsTypeStr(cell)
        s2 == Strip(s1)
    IN  IF digits_only THEN ReSubNonDigits(s2) ELSE s2

\* a Series is a sequence of [idx, val]: the index label and the value
_normalize_series(s, digits_only) ==
    [i \in 1..Len(s) |->
        [idx |-> s[i].idx, val |-> NormalizeValue(s[i].val, digits_only)]]

----------------------------------------------------------------------------
(* Tables (DataFrames) and Series *)

\* A table is [columns, rows]: the column names in order, and the rows; a row
\* is [idx, cells]: its index label and its cells, one per column.
Columns(df) == {df.columns[k] : k \in 1..Len(df.columns)}

\* df[col]
Column(df, col) ==
    LET k == CHOOSE j \in 1..Len(df.columns) : df.columns[j] = col
    IN  [i \in 1..Len(df.rows) |->
            [idx |-> df.rows[i].idx, val |-> df.rows[i].cells[k]]]

\* a mutant of Dropna: nothing is dropped
DropnaKeepAll(s) == s

\* Series.dropna()
Dropna(s) ==
    LET NotNa(e) == e.val.tag # "null"
    IN  SelectSeq(s, NotNa)

\* set(series.tolist())
ToSet(s) == {s[i].val : i \in 1..Len(s)}

\* Series.isin(values)
Isin(s, values) ==
    [i \in 1..Len(s) |-> [idx |-> s[i].idx, val |-> s[i].val \in values]]

\* a mutant of MaskSum: counts the distinct index labels below the last hit
MaskSumLastHit(mask) ==
    LET hits == {i \in 1..Len(mask) : mask[i].val}
    IN  IF hits = {} THEN 0 ELSE CHOOSE m \in hits : \A i \in hits : i <= m

\* mask.sum()
MaskSum(mask) == Cardinality({i \in 1..Len(mask) : mask[i].val})

\* the value of a boolean Series at an index label
At(mask, label) == (CHOOSE i \in 1..Len(mask) : mask[i].idx = label)

\* a mutant of LocNot: the mask is not negated
LocKeepMasked(df, mask) ==
    LET Keep(r) == mask[At(mask, r.idx)].val
    IN  [columns |-> df.columns, rows |-> SelectSeq(df.rows, Keep)]

\* df.loc[~mask].copy()
LocNot(df, mask) ==
    LET Keep(r) == ~mask[At(mask, r.idx)].val
    IN  [columns |-> df.columns, rows |-> SelectSeq(df.rows, Keep)]

\* series[mask]
Where(s, mask) ==
    LET Keep(e) == mask[At(mask, e.idx)].val
    IN  SelectSeq(s, Keep)

\* series.to_frame("numero").groupby("numero").size(): value -> group size
GroupbySize(s) ==
    [v \in ToSet(s) |-> Cardinality({i \in 1..Len(s) : s[i].val = v})]

RECURSIVE LexLess(_, _)
\* x < y for Python str: code points, left to right
LexLess(x, y) ==
    IF y = <<>> THEN FALSE
    ELSE IF x = <<>> THEN TRUE
    ELSE IF Head(x) # Head(y) THEN CharCode(Head(x)) < CharCode(Head(y))
    ELSE LexLess(Tail(x), Tail(y))

RECURSIVE SortedDescending(_)
\* a mutant of Sorted: the largest first
SortedDescending(values) ==
    IF values = {} THEN <<>>
    ELSE LET m == CHOOSE x \in values :
                      \A y \in values : x = y \/ LexLess(y, x)
         IN  <<m>> \o SortedDescending(values \ {m})

RECURSIVE Sorted(_)
\* sorted(set_of_str)
Sorted(values) ==
    IF values = {} THEN <<>>
    ELSE LET m == CHOOSE x \in values :
                      \A y \in values : x = y \/ LexLess(x, y)
         IN  <<m>> \o Sorted(values \ {m})

\* a left merge on the index: the count of key k, NaN where k has no group
LeftMerge(counts, k) == IF k \in DOMAIN counts THEN counts[k] ELSE NaN

\* the sheet "numeros_repetidos"
NumerosRepetidos(a_series, mask_repetidos, b_series) ==
    LET rep_en_a == GroupbySize(Where(a_series, mask_repetidos))
        rep_en_b == GroupbySize(b_series)
        index == Sorted(ToSet(Where(a_series, mask_repetidos)))
    IN  [columns |-> <<"numero", "conteo_en_A", "conteo_en_B">>,
         rows |-> [i \in 1..Len(index) |->
                     [numero |-> index[i],
                      conteo_en_A |-> LeftMerge(rep_en_a, index[i]),
                      conteo_en_B |-> LeftMerge(rep_en_b, index[i])]]]

----------------------------------------------------------------------------
(* Paso 3: the body of the button "Ejecutar limpieza" *)

MissingInput == "Debes cargar ambos archivos A y B."
MissingColumnSelection ==
    "Debes seleccionar la columna objetivo en A y la columna de numeros en B."

NoOutput(errors) ==
    [st_error |-> errors, metrics |-> NoneRec, df_resultado |-> NoneRec,
     numeros_repetidos |-> NoneRec, downloads |-> {}]

\* a mutant of EjecutarLimpieza: the first test reads "and" for "or"
EjecutarLimpiezaAnd(df_a, col_a_target, df_b, col_b_source, digits_only) ==
    IF df_a = NoneRec /\ df_b = NoneRec
    THEN NoOutput(<<MissingInput>>)
    ELSE NoOutput(<<MissingColumnSelection>>)

EjecutarLimpieza(df_a, col_a_target, df_b, col_b_source, digits_only) ==
    IF df_a = NoneRec \/ df_b = NoneRec
    THEN NoOutput(<<MissingInput>>)
    ELSE IF col_a_target = None \/ col_b_source = None
    THEN NoOutput(<<MissingColumnSelection>>)
    ELSE
      LET a_series == _normalize_series(Column(df_a, col_a_target), digits_only)
          b_series == _normalize_series(Dropna(Column(df_b, col_b_source)),
                                        digits_only)
          b_set == ToSet(b_series)
          mask_repetidos == Isin(a_series, b_set)
          filas_repetidas == MaskSum(mask_repetidos)
          df_resultado == LocNot(df_a, mask_repetidos)
      IN  [st_error |-> <<>>,
           metrics |-> [total |-> Len(df_a.rows),
                        eliminadas |-> filas_repetidas,
                        finales |-> Len(df_resultado.rows)],
           df_resultado |-> df_resultado,
           numeros_repetidos |->
               NumerosRepetidos(a_series, mask_repetidos, b_series),
           downloads |-> {"resultado_filtrado.xlsx", "resultado_filtrado.csv"}]

----------------------------------------------------------------------------
(* Utilidades: _ensure_bytes, _sniff_delimiter, _read_table *)

\* An uploaded file is a record: empty (its content is b""), excel (its name
\* ends in .xlsx or .xls), and what the parsers make of its content:
\* excel_ok (read_excel succeeds), infer_ok (read_csv with sep=None succeeds),
\* sniffed (the delimiter csv.Sniffer finds in the sample, None when it
\* raises), sniffed_ok (read_csv with the sniffed delimiter succeeds),
\* explicit_ok (read_csv with a chosen delimiter succeeds), and table, the
\* DataFrame a successful read returns.  No upload is NoneRec.

SepModes == {"auto", "coma", "punto_y_coma", "tab", "pipe", "otro"}
SniffDelimiters == {",", ";", "\t", "|"}

Err(msg, sep) == [msg |-> msg, sep |-> sep]
NoHayDatos == "No hay datos"
ErrorExcel == "Error leyendo Excel"
ErrorSniffed == "No se pudo leer el CSV (separador)"
AmbiguousDelimiter ==
    "No se pudo inferir el delimitador automaticamente. Seleccionalo manualmente."
ErrorSeparador == "Error leyendo CSV con separador"

_ensure_bytes(uploaded_file) == uploaded_file

\* bool(file_bytes)
Truthy(file_bytes) == file_bytes # NoneRec /\ ~file_bytes.empty

_sniff_delimiter(sample_bytes) ==
    IF ~Truthy(sample_bytes) THEN None ELSE sample_bytes.sniffed

\* the dict m of _read_table, with "," for an unknown mode
SepOf(sep_mode) ==
    CASE sep_mode = "coma" -> ","
      [] sep_mode = "punto_y_coma" -> ";"
      [] sep_mode = "tab" -> "\t"
      [] sep_mode = "pipe" -> "|"
      [] sep_mode = "otro" -> "custom_sep"
      [] OTHER -> ","

Loaded(table, steps) == [df |-> table, err |-> NoneRec, steps |-> steps]
Failed(err, steps) == [df |-> NoneRec, err |-> err, steps |-> steps]

\* a mutant of _read_table: in auto mode the sniffer runs before the inference
_read_table_sniff_first(file_bytes, sep_mode) ==
    IF file_bytes = NoneRec THEN Failed(Err(NoHayDatos, None), <<>>)
    ELSE IF file_bytes.excel
    THEN IF file_bytes.excel_ok
         THEN Loaded(file_bytes.table, <<"read_excel">>)
         ELSE Failed(Err(ErrorExcel, None), <<"read_excel">>)
    ELSE IF sep_mode = "auto"
    THEN LET sniffed == _sniff_delimiter(file_bytes)
         IN  IF sniffed # None /\ file_bytes.sniffed_ok
             THEN Loaded(file_bytes.table, <<"sniff", "read_csv_sniffed">>)
             ELSE IF file_bytes.infer_ok
             THEN Loaded(file_bytes.table, <<"sniff", "read_csv_infer">>)
             ELSE Failed(Err(AmbiguousDelimiter, None),
                         <<"sniff", "read_csv_infer">>)
    ELSE IF file_bytes.explicit_ok
         THEN Loaded(file_bytes.table, <<"read_csv_sep">>)
         ELSE Failed(Err(ErrorSeparador, SepOf(sep_mode)), <<"read_csv_sep">>)

\* _read_table: [df, err] and, as steps, the reads and sniffs it made, in order
_read_table(file_bytes, sep_mode) ==
    IF file_bytes = NoneRec THEN Failed(Err(NoHayDatos, None), <<>>)
    ELSE IF file_bytes.excel
    THEN IF file_bytes.excel_ok
         THEN Loaded(file_bytes.table, <<"read_excel">>)
         ELSE Failed(Err(ErrorExcel, None), <<"read_excel">>)
    ELSE IF sep_mode = "auto"
    THEN IF file_bytes.infer_ok
         THEN Loaded(file_bytes.table, <<"read_csv_infer">>)
         ELSE LET sniffed == _sniff_delimiter(file_bytes)
              IN  IF sniffed # None
                  THEN IF file_bytes.sniffed_ok
                       THEN Loaded(file_bytes.table,
                                   <<"read_csv_infer", "sniff", "read_csv_sniffed">>)
                       ELSE Failed(Err(ErrorSniffed, sniffed),
                                   <<"read_csv_infer", "sniff", "read_csv_sniffed">>)
                  ELSE Failed(Err(AmbiguousDelimiter, None),
                              <<"read_csv_infer", "sniff">>)
    ELSE IF file_bytes.explicit_ok
         THEN Loaded(file_bytes.table, <<"read_csv_sep">>)
         ELSE Failed(Err(ErrorSeparador, SepOf(sep_mode)), <<"read_csv_sep">>)

\* Paso 1 / Paso 2: the file is read only when its bytes are truthy
LoadSection(file, sep_mode) ==
    LET file_bytes == _ensure_bytes(file)
    IN  IF Truthy(file_bytes)
        THEN _read_table(file_bytes, sep_mode)
        ELSE [df |-> NoneRec, err |-> NoneRec, steps |-> <<>>]

\* st.selectbox(label, df.columns): the first column by default, the earlier
\* choice while the options are the same; None when there is no table or no
\* column to choose
Selectbox(df, previous_df, previous) ==
    IF df = NoneRec THEN None
    ELSE IF df.columns = <<>> THEN None
    ELSE IF previous_df # NoneRec /\ previous_df.columns = df.columns
            /\ previous \in Columns(df)
         THEN previous
         ELSE df.columns[1]

----------------------------------------------------------------------------
(* The page: one run of the script, top to bottom *)

VARIABLES
    file_a, sep_a_mode, df_a, err_a, col_a_target,
    file_b, sep_b_mode, df_b, err_b, col_b_source,
    digits_only,
    clicked,            \* st.button returned True in this run of the script
    steps_a, steps_b,   \* what _read_table did for A and for B in this run
    st_error,           \* the st.error calls of this run, in order
    metrics, df_resultado, numeros_repetidos, downloads

vars == <<file_a, sep_a_mode, df_a, err_a, col_a_target,
          file_b, sep_b_mode, df_b, err_b, col_b_source,
          digits_only, clicked, steps_a, steps_b, st_error,
          metrics, df_resultado, numeros_repetidos, downloads>>

Shown(who, err) == IF err # NoneRec THEN <<[who |-> who, err |-> err]>> ELSE <<>>

\* The script run with the widgets holding fa, sa, fb, sb, dg, the button
\* giving click, and sel_a, sel_b the column choices held by the selectboxes,
\* which were last drawn for the tables old_a and old_b.
Page(fa, sa, fb, sb, dg, click, old_a, sel_a, old_b, sel_b) ==
    LET la == LoadSection(fa, sa)
        lb == LoadSection(fb, sb)
        ca == Selectbox(la.df, old_a, sel_a)
        cb == Selectbox(lb.df, old_b, sel_b)
        out == IF click
               THEN EjecutarLimpieza(la.df, ca, lb.df, cb, dg)
               ELSE NoOutput(<<>>)
    IN  [file_a |-> fa, sep_a_mode |-> sa, df_a |-> la.df, err_a |-> la.err,
         col_a_target |-> ca, steps_a |-> la.steps,
         file_b |-> fb, sep_b_mode |-> sb, df_b |-> lb.df, err_b |-> lb.err,
         col_b_source |-> cb, steps_b |-> lb.steps,
         digits_only |-> dg, clicked |-> click,
         st_error |-> Shown("A", la.err) \o Shown("B", lb.err)
                      \o [i \in 1..Len(out.st_error) |->
                             [who |-> "run", err |-> Err(out.st_error[i], None)]],
         metrics |-> out.metrics, df_resultado |-> out.df_resultado,
         numeros_repetidos |-> out.numeros_repetidos,
         downloads |-> out.downloads]

Show(p) ==
    /\ file_a = p.file_a /\ sep_a_mode = p.sep_a_mode /\ df_a = p.df_a
    /\ err_a = p.err_a /\ col_a_target = p.col_a_target /\ steps_a = p.steps_a
    /\ file_b = p.file_b /\ sep_b_mode = p.sep_b_mode /\ df_b = p.df_b
    /\ err_b = p.err_b /\ col_b_source = p.col_b_source /\ steps_b = p.steps_b
    /\ digits_only = p.digits_only /\ clicked = p.clicked
    /\ st_error = p.st_error /\ metrics = p.metrics
    /\ df_resultado = p.df_resultado
    /\ numeros_repetidos = p.numeros_repetidos /\ downloads = p.downloads

Rerun(p) ==
    /\ file_a' = p.file_a /\ sep_a_mode' = p.sep_a_mode /\ df_a' = p.df_a
    /\ err_a' = p.err_a /\ col_a_target' = p.col_a_target /\ steps_a' = p.steps_a
    /\ file_b' = p.file_b /\ sep_b_mode' = p.sep_b_mode /\ df_b' = p.df_b
    /\ err_b' = p.err_b /\ col_b_source' = p.col_b_source /\ steps_b' = p.steps_b
    /\ digits_only' = p.digits_only /\ clicked' = p.clicked
    /\ st_error' = p.st_error /\ metrics' = p.metrics
    /\ df_resultado' = p.df_resultado
    /\ numeros_repetidos' = p.numeros_repetidos /\ downloads' = p.downloads

----------------------------------------------------------------------------
(* Inputs *)

\* the rows of a table whose columns are a key and the row's number
KeyedRows(keys, base) ==
    [i \in 1..Len(keys) |-> [idx |-> i - 1, cells |-> <<keys[i], I(base + i)>>]]

SingleRows(keys) ==
    [i \in 1..Len(keys) |-> [idx |-> i - 1, cells |-> <<keys[i]>>]]

TableA(keys) ==
    [columns |-> <<"numero", "fila">>, rows |-> KeyedRows(keys, 6)]

TableB(keys) == [columns |-> <<"numero">>, rows |-> SingleRows(keys)]

\* the empty sheet of a workbook: no column, no row
EmptySheet == [columns |-> <<>>, rows |-> <<>>]

\* the files of the session
SessionTables == {EmptySheet, TableA(<<S(<<"7">>), Null>>)}

SessionSniffed == {None, ";"}

NoFile == NoneRec

File(empty, excel, excel_ok, infer_ok, sniffed, sniffed_ok, explicit_ok, table) ==
    [empty |-> empty, excel |-> excel, excel_ok |-> excel_ok,
     infer_ok |-> infer_ok, sniffed |-> sniffed, sniffed_ok |-> sniffed_ok,
     explicit_ok |-> explicit_ok, table |-> table]

EmptyFile == File(TRUE, FALSE, FALSE, FALSE, None, FALSE, FALSE, NoneRec)

Workbooks ==
    {File(FALSE, TRUE, TRUE, FALSE, None, FALSE, FALSE, t) : t \in SessionTables}
    \cup {File(FALSE, TRUE, FALSE, FALSE, None, FALSE, FALSE, NoneRec)}

\* delimited text: a read that succeeds returns a table with a column
TextFiles ==
    LET Readable(i, s, so, e) == i \/ (s # None /\ so) \/ e
    IN  {File(FALSE, FALSE, FALSE, k[1], k[2], k[3], k[4], k[5]) :
            k \in {q \in BOOLEAN \X SessionSniffed \X BOOLEAN \X BOOLEAN
                          \X (SessionTables \cup {NoneRec}) :
                     /\ q[5] # EmptySheet
                     /\ (q[5] = NoneRec) <=> ~Readable(q[1], q[2], q[3], q[4])
                     /\ q[2] = None => ~q[3]
                     /\ q[1] => (q[2] = None)}}

Files == {EmptyFile} \cup Workbooks \cup TextFiles

----------------------------------------------------------------------------
(* The session: what the user does to the page *)

Init ==
    Show(Page(NoFile, "auto", NoFile, "auto", FALSE, FALSE,
              NoneRec, None, NoneRec, None))

\* the script runs again with the widgets as they are, but for the changes
Again(fa, sa, fb, sb, dg, click, sel_a, sel_b) ==
    Rerun(Page(fa, sa, fb, sb, dg, click, df_a, sel_a, df_b, sel_b))

UploadA ==
    \E f \in Files :
        Again(f, sep_a_mode, file_b, sep_b_mode, digits_only, FALSE,
              col_a_target, col_b_source)

RemoveA ==
    /\ file_a # NoFile
    /\ Again(NoFile, sep_a_mode, file_b, sep_b_mode, digits_only, FALSE,
             col_a_target, col_b_source)

SelectSepA ==
    \E m \in SepModes \ {sep_a_mode} :
        Again(file_a, m, file_b, sep_b_mode, digits_only, FALSE,
              col_a_target, col_b_source)

SelectColA ==
    /\ df_a # NoneRec
    /\ \E c \in Columns(df_a) \ {col_a_target} :
        Again(file_a, sep_a_mode, file_b, sep_b_mode, digits_only, FALSE,
              c, col_b_source)

UploadB ==
    \E f \in Files :
        Again(file_a, sep_a_mode, f, sep_b_mode, digits_only, FALSE,
              col_a_target, col_b_source)

RemoveB ==
    /\ file_b # NoFile
    /\ Again(file_a, sep_a_mode, NoFile, sep_b_mode, digits_only, FALSE,
             col_a_target, col_b_source)

SelectSepB ==
    \E m \in SepModes \ {sep_b_mode} :
        Again(file_a, sep_a_mode, file_b, m, digits_only, FALSE,
              col_a_target, col_b_source)

SelectColB ==
    /\ df_b # NoneRec
    /\ \E c \in Columns(df_b) \ {col_b_source} :
        Again(file_a, sep_a_mode, file_b, sep_b_mode, digits_only, FALSE,
              col_a_target, c)

ToggleDigitsOnly ==
    Again(file_a, sep_a_mode, file_b, sep_b_mode, ~digits_only, FALSE,
          col_a_target, col_b_source)

ClickEjecutar ==
    Again(file_a, sep_a_mode, file_b, sep_b_mode, digits_only, TRUE,
          col_a_target, col_b_source)

Next ==
    \/ UploadA
    \/ RemoveA
    \/ SelectSepA
    \/ SelectColA
    \/ UploadB
    \/ RemoveB
    \/ SelectSepB
    \/ SelectColB
    \/ ToggleDigitsOnly
    \/ ClickEjecutar

Spec == Init /\ [][Next]_vars

----------------------------------------------------------------------------
(* The filter as a function of its inputs: both tables loaded, any choice of
   rows, target column and digits_only, then "Ejecutar limpieza" *)

MaxRowsA == 2
MaxRowsB == 2

CellsA ==
    {Null, S(<<"7">>), S(<<" ", "7", " ">>), S(<<" ">>),
     S(<<"5", "5", "5", "-", "1", "2", "3", "4">>)}

CellsB ==
    {Null, S(<<"7">>), S(<<"n", "a", "n">>), S(<<" ">>),
     S(<<"5", "5", "5", "1", "2", "3", "4">>)}

SeqsUpTo(cells, n) == UNION {[1..k -> cells] : k \in 0..n}

\* the example of the summary: A holds 7, 7, 9 and B holds 7, 7, 8
ExampleA == TableA(<<I(7), I(7), I(9)>>)
ExampleB == TableB(<<I(7), I(7), I(8)>>)

TablesA == {TableA(keys) : keys \in SeqsUpTo(CellsA, MaxRowsA)} \cup {ExampleA}
TablesB == {TableB(keys) : keys \in SeqsUpTo(CellsB, MaxRowsB)} \cup {ExampleB}

\* a text file that read_csv reads at the first attempt
TextFile(table) == File(FALSE, FALSE, FALSE, TRUE, None, FALSE, TRUE, table)

InitFilter ==
    \E ta \in TablesA, tb \in TablesB, dg \in BOOLEAN :
    \E ca \in Columns(ta), cb \in Columns(tb) :
        Show(Page(TextFile(ta), "auto", TextFile(tb), "auto", dg, FALSE,
                  ta, ca, tb, cb))

NextFilter == ClickEjecutar

SpecFilter == InitFilter /\ [][NextFilter]_vars

----------------------------------------------------------------------------
(* The terms of the specification, read off the page *)

\* a run that produced a result
Ran == clicked /\ df_resultado # NoneRec

\* the st.error calls of "Ejecutar limpieza"
RunErrors ==
    LET ByRun(e) == e.who = "run"
        shown == SelectSeq(st_error, ByRun)
    IN  [i \in 1..Len(shown) |-> shown[i].err.msg]

NoResult ==
    /\ metrics = NoneRec /\ df_resultado = NoneRec
    /\ numeros_repetidos = NoneRec /\ downloads = {}

RowsA == 1..Len(df_a.rows)
RowsB == 1..Len(df_b.rows)
CellA(i) ==
    df_a.rows[i].cells[CHOOSE k \in 1..Len(df_a.columns) :
                           df_a.columns[k] = col_a_target]
CellB(j) ==
    df_b.rows[j].cells[CHOOSE k \in 1..Len(df_b.columns) :
                           df_b.columns[k] = col_b_source]
IsNull(cell) == cell.tag = "null"

\* the normalized value of row i of A, and of row j of B
KeyA(i) == NormalizeValue(CellA(i), digits_only)
KeyB(j) == NormalizeValue(CellB(j), digits_only)

\* the Exclusion Set: the normalized non-null values of B's chosen column
ExclusionSet == {KeyB(j) : j \in {k \in RowsB : ~IsNull(CellB(k))}}

\* row i of A is in FilteredResult / is not
Kept(i) ==
    \E j \in 1..Len(df_resultado.rows) :
        df_resultado.rows[j].idx = df_a.rows[i].idx
Excluded(i) == ~Kept(i)

\* C1: a successful run keeps exactly the rows of A whose normalized target
\* value is outside the Exclusion Set, in A's order, each with its original cells.
FilteredResultExact ==
    Ran =>
        LET res == df_resultado.rows
        IN  /\ df_resultado.columns = df_a.columns
            /\ \A i \in RowsA : Kept(i) <=> KeyA(i) \notin ExclusionSet
            /\ \A j \in 1..Len(res) :
                   \E i \in RowsA : /\ df_a.rows[i] = res[j]
                                    /\ KeyA(i) \notin ExclusionSet
            /\ \A j, k \in 1..Len(res) : j < k => res[j].idx < res[k].idx
            /\ Len(res) = Cardinality({i \in RowsA : KeyA(i) \notin ExclusionSet})

FilteredResultWitness ==
    /\ Ran
    /\ \E i, k \in RowsA : Kept(i) /\ Excluded(k)

\* C2: after a successful run remaining + excluded = total, total being the rows
\* of A, excluded the rows of A whose value is in the Exclusion Set, and
\* remaining the rows of FilteredResult.
CountsAddUp ==
    Ran =>
        /\ metrics.finales + metrics.eliminadas = metrics.total
        /\ metrics.total = Len(df_a.rows)
        /\ metrics.eliminadas = Cardinality({i \in RowsA : KeyA(i) \in ExclusionSet})
        /\ metrics.finales = Len(df_resultado.rows)

CountsWitness ==
    Ran /\ metrics.eliminadas >= 1 /\ metrics.finales >= 1 /\ metrics.total >= 2

\* C3: the Duplicate Summary has one row per distinct normalized value that
\* excluded a row of A and no other, with the number of A rows and of B rows
\* holding that value (both at least 1, none missing), in ascending order of the
\* value; A = 7, 7, 9 and B = 7, 7, 8 give the one row (7, 2, 2) and 1 remaining.
SummaryExact ==
    Ran =>
        LET sum == numeros_repetidos.rows
            causes == {KeyA(i) : i \in {k \in RowsA : KeyA(k) \in ExclusionSet}}
        IN  /\ {sum[n].numero : n \in 1..Len(sum)} = causes
            /\ Len(sum) = Cardinality(causes)
            /\ \A n \in 1..Len(sum) :
                /\ sum[n].conteo_en_A =
                       Cardinality({i \in RowsA : KeyA(i) = sum[n].numero})
                /\ sum[n].conteo_en_A >= 1
                /\ sum[n].conteo_en_B =
                       Cardinality({j \in RowsB : /\ ~IsNull(CellB(j))
                                                  /\ KeyB(j) = sum[n].numero})
                /\ sum[n].conteo_en_B >= 1
            /\ \A n, m \in 1..Len(sum) :
                   n < m => LexLess(sum[n].numero, sum[m].numero)
            /\ (df_a = ExampleA /\ df_b = ExampleB /\ col_a_target = "numero"
                    /\ ~digits_only)
               => /\ sum = <<[numero |-> <<"7">>, conteo_en_A |-> 2,
                              conteo_en_B |-> 2]>>
                  /\ metrics.finales = 1

SummaryWitness ==
    /\ Ran /\ df_a = ExampleA /\ df_b = ExampleB
    /\ col_a_target = "numero" /\ ~digits_only
    /\ Len(numeros_repetidos.rows) = 1

\* a blank cell: null, empty, or empty once trimmed
Blank(cell) == IsNull(cell) \/ Strip(AsTypeStr(cell)) = <<>>

\* C4: a blank value of B's column (null, empty, or blank once trimmed) adds no
\* member to the Exclusion Set and excludes no row of A: every excluded row of A
\* matches a value of B that is not blank.
BlankBNeverExcludes ==
    Ran =>
        \A i \in RowsA :
            Excluded(i) => \E j \in RowsB : ~Blank(CellB(j)) /\ KeyB(j) = KeyA(i)

\* C5: in both modes a null cell of A's target column normalizes to the empty
\* string, and its row is excluded exactly when the empty string is in the
\* Exclusion Set.
NullANormalizesEmpty ==
    Ran =>
        \A i \in RowsA :
            IsNull(CellA(i)) =>
                /\ KeyA(i) = <<>>
                /\ Excluded(i) <=> (<<>> \in ExclusionSet)

\* C6: a run with table A or table B absent reports MissingInput, a run with
\* both tables and no column chosen for A or for B reports
\* MissingColumnSelection; either way the run reports that one error and
\* produces no table, no summary, no counts and no download.
MissingInputsRejected ==
    clicked =>
        /\ (df_a = NoneRec \/ df_b = NoneRec)
           => RunErrors = <<MissingInput>> /\ NoResult
        /\ (df_a # NoneRec /\ df_b # NoneRec
                /\ (col_a_target = None \/ col_b_source = None))
           => RunErrors = <<MissingColumnSelection>> /\ NoResult

MissingColumnWitness ==
    /\ clicked /\ df_a # NoneRec /\ df_b # NoneRec /\ col_a_target = None
    /\ RunErrors = <<MissingColumnSelection>>

ShownFor(who) == \E n \in 1..Len(st_error) : st_error[n].who = who

\* C7: whenever an uploaded file yields no table, an error is shown for that
\* file, it has no table and no column selection, and a run triggered then
\* reports an error and produces no result.
LoadFailureReported ==
    /\ (file_a # NoFile /\ df_a = NoneRec)
       => /\ ShownFor("A")
          /\ col_a_target = None
          /\ clicked => (RunErrors # <<>> /\ NoResult)
    /\ (file_b # NoFile /\ df_b = NoneRec)
       => /\ ShownFor("B")
          /\ col_b_source = None
          /\ clicked => (RunErrors # <<>> /\ NoResult)

\* the digits of a string, in order, and the string without the whitespace
\* at its ends
DigitsOf(s) ==
    LET IsDigit(c) == c \in Digits
    IN  SelectSeq(s, IsDigit)
Trimmed(s) ==
    LET inner == {n \in 1..Len(s) : s[n] \notin Whitespace}
    IN  IF inner = {} THEN <<>>
        ELSE SubSeq(s, CHOOSE n \in inner : \A m \in inner : n <= m,
                       CHOOSE n \in inner : \A m \in inner : m <= n)

\* two cells compare equal in the given mode
SameKey(x, y, digits) ==
    IF digits
    THEN DigitsOf(AsTypeStr(x)) = DigitsOf(AsTypeStr(y))
    ELSE Trimmed(AsTypeStr(x)) = Trimmed(AsTypeStr(y))

PhoneDashed == S(<<"5", "5", "5", "-", "1", "2", "3", "4">>)
PhonePlain == S(<<"5", "5", "5", "1", "2", "3", "4">>)

\* C8: with digitsOnly two cell values compare equal exactly when their digits
\* are the same sequence, without it exactly when their trimmed strings are
\* equal; "555-1234" and "5551234" are equal only with digitsOnly, and a row of
\* A holding one is excluded by a B holding the other only then.
NormalizationEquality ==
    /\ NormalizeValue(PhoneDashed, TRUE) = NormalizeValue(PhonePlain, TRUE)
    /\ NormalizeValue(PhoneDashed, FALSE) # NormalizeValue(PhonePlain, FALSE)
    /\ Ran =>
        /\ \A i \in RowsA : \A j \in RowsB :
               ~IsNull(CellB(j)) =>
                   ((KeyA(i) = KeyB(j)) <=> SameKey(CellA(i), CellB(j), digits_only))
        /\ \A i \in RowsA :
               Excluded(i) <=>
                   \E j \in RowsB : /\ ~IsNull(CellB(j))
                                    /\ SameKey(CellA(i), CellB(j), digits_only)
        /\ \A i \in RowsA :
               (/\ CellA(i) = PhoneDashed
                /\ RowsB # {}
                /\ \A j \in RowsB : CellB(j) = PhonePlain)
               => (Excluded(i) <=> digits_only)

NormalizationWitness ==
    /\ Ran /\ digits_only
    /\ \E i \in RowsA : \E j \in RowsB :
           CellA(i) = PhoneDashed /\ CellB(j) = PhonePlain /\ Excluded(i)

\* a load of delimited text in auto mode happened for this file
AutoText(file, sep_mode) ==
    file # NoFile /\ ~file.empty /\ ~file.excel /\ sep_mode = "auto"

Count(steps, what) == Cardinality({n \in 1..Len(steps) : steps[n] = what})

\* C9 as stated: in auto mode, a load of delimited text that yields no table
\* yields AmbiguousDelimiter.
AutoFailureIsAmbiguous ==
    /\ (AutoText(file_a, sep_a_mode) /\ df_a = NoneRec)
       => err_a = Err(AmbiguousDelimiter, None)
    /\ (AutoText(file_b, sep_b_mode) /\ df_b = NoneRec)
       => err_b = Err(AmbiguousDelimiter, None)

TwoSteps(file, df, err, steps) ==
    /\ steps[1] = "read_csv_infer"
    /\ Count(steps, "read_csv_infer") = 1
    /\ Count(steps, "sniff") <= 1
    /\ Count(steps, "sniff") = 1 <=> ~file.infer_ok
    /\ file.infer_ok => steps = <<"read_csv_infer">> /\ df = file.table
    /\ (~file.infer_ok /\ file.sniffed # None /\ file.sniffed_ok)
       => df = file.table /\ err = NoneRec
    /\ df # NoneRec
       <=> (file.infer_ok \/ (file.sniffed # None /\ file.sniffed_ok))
    /\ df = NoneRec
       => IF file.sniffed = None
          THEN err = Err(AmbiguousDelimiter, None)
          ELSE err = Err(ErrorSniffed, file.sniffed)

\* C9, amended: the inference runs first and once, the sniffer only after it
\* failed and once, a step that succeeds returns its table, and when both fail
\* there is no table and the error is AmbiguousDelimiter if the sniffer found no
\* delimiter, else the parse error naming the sniffed delimiter.
AutoLoadTwoSteps ==
    /\ AutoText(file_a, sep_a_mode) => TwoSteps(file_a, df_a, err_a, steps_a)
    /\ AutoText(file_b, sep_b_mode) => TwoSteps(file_b, df_b, err_b, steps_b)

AutoLoadWitness ==
    /\ AutoText(file_a, sep_a_mode)
    /\ steps_a = <<"read_csv_infer", "sniff", "read_csv_sniffed">>
    /\ df_a = NoneRec /\ err_a = Err(ErrorSniffed, ";")

\* C10: when no normalized value of A's column is a normalized value of B's, the
\* run returns A as it is, an empty summary and 0 excluded rows.
DisjointLeavesA ==
    (Ran /\ {KeyA(i) : i \in RowsA} \cap ExclusionSet = {})
    => /\ df_resultado = df_a
       /\ numeros_repetidos.rows = <<>>
       /\ metrics.eliminadas = 0
       /\ metrics.finales = metrics.total

DisjointWitness ==
    /\ Ran /\ {KeyA(i) : i \in RowsA} \cap ExclusionSet = {}
    /\ Len(df_a.rows) >= 2 /\ ExclusionSet # {}
    /\ df_resultado = df_a

====
